---- MODULE Spec2Model ----
(***************************************************************************)
(* pglogical_ticker: a PostgreSQL background worker that executes          *)
(* "SELECT pglogical_ticker.tick();" once per wake-up of its latch wait,   *)
(* and the SQL-callable function pglogical_ticker_launch that registers    *)
(* such a worker dynamically and waits for its start to be acknowledged.   *)
(*                                                                         *)
(* Spec      : one worker process running pglogical_ticker_main, with the  *)
(*             signals, the postmaster, the clock and the configuration    *)
(*             file as its environment.                                    *)
(* FairSpec  : Spec with weak fairness on the worker's own steps.          *)
(* LaunchSpec: one backend calling pglogical_ticker_launch, with the       *)
(*             postmaster's background-worker slots as its environment.    *)
(***************************************************************************)
EXTENDS Integers, FiniteSets, Sequences, TLC

(***************************************************************************)
(* Bounds of the model.                                                    *)
(***************************************************************************)
\* pglogical_ticker.naptime ranges over 1..MaxNaptime (the GUC allows 1..INT_MAX)
MaxNaptime == 1
\* the tick counter saturates at MaxTicks
MaxTicks == 1
\* database oids handed to the worker / to launch are 0..MaxDbOid (0 = InvalidOid)
MaxDbOid == 1
\* background-worker slots of the postmaster (max_worker_processes)
MaxSlots == 2

(***************************************************************************)
(* Program constants.                                                      *)
(***************************************************************************)
\* WaitLatch takes its timeout in milliseconds: naptime * 1000L
MsPerSec == 1000
\* both proc_exit calls of pglogical_ticker_main pass 1
ExitCode == 1
\* static int pglogical_ticker_restart_time = 10
DefaultRestartTime == 10
\* static int pglogical_ticker_total_workers = 1
pglogical_ticker_total_workers == 1
\* the lowest value of pglogical_ticker.restart_time: never restart
BGW_NEVER_RESTART == -1

WL_LATCH_SET == "WL_LATCH_SET"
WL_TIMEOUT == "WL_TIMEOUT"
WL_POSTMASTER_DEATH == "WL_POSTMASTER_DEATH"
\* the wake events asked for in the WaitLatch call
WakeEvents == {WL_LATCH_SET, WL_TIMEOUT, WL_POSTMASTER_DEATH}

\* values of pglogical_ticker.restart_time written to the worker's configuration file
FileRestartTimes == {BGW_NEVER_RESTART, DefaultRestartTime}

NoDatabase == "NULL"
Databases == {NoDatabase, "db1"}
DbOids == 0..MaxDbOid
Naptimes == 1..MaxNaptime

Min(a, b) == IF a < b THEN a ELSE b

VARIABLES
    \* ---- worker process (pglogical_ticker_main) ----
    pc,                 \* position of the worker in pglogical_ticker_main
    got_sighup,         \* static volatile sig_atomic_t got_sighup
    got_sigterm,        \* static volatile sig_atomic_t got_sigterm
    latch,              \* MyLatch is set
    handlersInstalled,  \* pqsignal(SIGHUP/SIGTERM, ...) done
    sigBlocked,         \* signals still blocked (before BackgroundWorkerUnblockSignals)
    pendingSig,         \* signals sent while blocked
    rc,                 \* return value of the last WaitLatch (set of wake events)
    timeout,            \* timeout argument of the current WaitLatch, in ms
    elapsed,            \* ms spent in the current WaitLatch
    pglogical_ticker_naptime,   \* GUC, as seen by the worker process
    pglogical_ticker_database,  \* GUC, as seen by the worker process
    confNaptime,        \* pglogical_ticker.naptime in the configuration file
    confDatabase,       \* pglogical_ticker.database in the configuration file
    confRestartTime,    \* pglogical_ticker.restart_time in the configuration file
    main_arg,           \* Datum main_arg of pglogical_ticker_main (db oid)
    connTarget,         \* what the worker connected to
    xact,               \* transaction state of the worker
    activity,           \* pgstat activity state of the worker
    postmasterAlive,    \* the postmaster is alive
    interruptPending,   \* a host interrupt (e.g. query cancel) is pending
    exitStatus,         \* status passed to proc_exit, -1 while running
    exitReason,         \* why the worker terminated
    ticks,              \* units of work started (saturating)
    sinceTick,          \* ms since the last unit of work started (saturating)
    tickErrors,         \* an error was raised inside a unit of work
    reloaded,           \* the configuration was re-read since the current WaitLatch call
    termAtWake,         \* got_sigterm was true when the current WaitLatch returned
    owed,               \* signals sent to the worker and not yet acted upon by its loop
    \* ---- backend calling pglogical_ticker_launch, and the postmaster's slots ----
    lpc,                \* position of the backend in pglogical_ticker_launch
    db_oid,             \* Oid db_oid = PG_GETARG_OID(0)
    worker,             \* BackgroundWorker worker (the launch descriptor)
    handle,             \* BackgroundWorkerHandle *handle (slot number, 0 = none)
    status,             \* BgwHandleStatus status
    pid,                \* pid_t pid
    result,             \* what the call gave its caller
    pglogical_ticker_restart_time,  \* GUC, as seen by the postmaster and the backend
    staticWorker,       \* BackgroundWorker worker of _PG_init, once registered
    slots               \* the postmaster's background-worker slots: the state, the
                        \* process id and the restart policy of each

workerVars == <<pc, got_sighup, got_sigterm, latch, handlersInstalled, sigBlocked,
                pendingSig, rc, timeout, elapsed, pglogical_ticker_naptime,
                pglogical_ticker_database, confNaptime, confDatabase, confRestartTime,
                main_arg, connTarget, xact,
                activity, interruptPending, exitStatus, exitReason, ticks, sinceTick,
                tickErrors, reloaded, termAtWake, owed>>

launchVars == <<lpc, db_oid, worker, handle, status, pid, result,
                pglogical_ticker_restart_time, staticWorker, slots>>

\* history of the current loop cycle
cycleVars == <<reloaded, termAtWake, owed>>

vars == <<workerVars, launchVars, postmasterAlive>>

\* saturation point of sinceTick: no timeout is longer than this
GapCap == MaxNaptime * MsPerSec

(***************************************************************************)
(* Signal handlers.                                                        *)
(***************************************************************************)
\* the SIGTERM handler that also writes the other flag
SigtermClearsSighup ==
    /\ got_sigterm' = TRUE
    /\ latch' = TRUE
    /\ got_sighup' = FALSE

\* pglogical_ticker_sigterm: got_sigterm = true; SetLatch(MyLatch)
pglogical_ticker_sigterm ==
    /\ got_sigterm' = TRUE
    /\ latch' = TRUE
    /\ UNCHANGED got_sighup

\* the SIGHUP handler without its SetLatch call
SighupNoSetLatch ==
    /\ got_sighup' = TRUE
    /\ UNCHANGED <<got_sigterm, latch>>

\* pglogical_ticker_sighup: got_sighup = true; SetLatch(MyLatch)
pglogical_ticker_sighup ==
    /\ got_sighup' = TRUE
    /\ latch' = TRUE
    /\ UNCHANGED got_sigterm

(***************************************************************************)
(* Termination of the worker process.                                      *)
(***************************************************************************)
\* the exit that reports a requested shutdown as success
ProcExitZeroOnShutdown(code, why) ==
    /\ pc' = "terminated"
    /\ exitStatus' = IF why = "shutdown" THEN 0 ELSE code
    /\ exitReason' = why
    /\ xact' = "idle"

\* proc_exit(code): the process is gone; an open transaction is aborted by
\* the exit callbacks
proc_exit(code, why) ==
    /\ pc' = "terminated"
    /\ exitStatus' = code
    /\ exitReason' = why
    /\ xact' = "idle"

\* ereport(ERROR) inside pglogical_ticker_main: the function has no PG_TRY
\* block, so control leaves it for the background worker's top-level handler,
\* which reports the error and calls proc_exit(1)
RaiseError(why) == proc_exit(ExitCode, why)

\* SIGTERM reaching the process while no function of this file is installed
\* for it (before line 93): the disposition the host started the process
\* with ends the process, and the flag of this file is never set
DefaultSigterm == proc_exit(ExitCode, "host_sigterm")

(***************************************************************************)
(* Startup of pglogical_ticker_main.                                       *)
(***************************************************************************)
\* startup that leaves the signal dispositions as the process started with
InstallHandlersSkipped ==
    /\ pc = "install_handlers"
    /\ handlersInstalled' = FALSE
    /\ pc' = "unblock"
    /\ UNCHANGED <<got_sighup, got_sigterm, latch, sigBlocked, pendingSig, rc, timeout,
                   elapsed, pglogical_ticker_naptime, pglogical_ticker_database,
                   confNaptime, confDatabase, confRestartTime,
                   main_arg, connTarget, xact, activity, postmasterAlive,
                   interruptPending, exitStatus, exitReason, ticks, sinceTick, tickErrors>>
    /\ UNCHANGED <<cycleVars, launchVars>>

\* pqsignal(SIGHUP, pglogical_ticker_sighup); pqsignal(SIGTERM, pglogical_ticker_sigterm)
InstallHandlers ==
    /\ pc = "install_handlers"
    /\ handlersInstalled' = TRUE
    /\ pc' = "unblock"
    /\ UNCHANGED <<got_sighup, got_sigterm, latch, sigBlocked, pendingSig, rc, timeout,
                   elapsed, pglogical_ticker_naptime, pglogical_ticker_database,
                   confNaptime, confDatabase, confRestartTime,
                   main_arg, connTarget, xact, activity, postmasterAlive,
                   interruptPending, exitStatus, exitReason, ticks, sinceTick, tickErrors>>
    /\ UNCHANGED <<cycleVars, launchVars>>

\* BackgroundWorkerUnblockSignals(): the signals that arrived while blocked are
\* delivered before the call returns: to the function installed for it, or
\* else by the disposition the process started with
Handled(sig) == sig \in pendingSig /\ handlersInstalled

BackgroundWorkerUnblockSignals ==
    /\ pc = "unblock"
    /\ sigBlocked' = FALSE
    /\ pendingSig' = {}
    /\ got_sighup' = (got_sighup \/ Handled("SIGHUP"))
    /\ got_sigterm' = (got_sigterm \/ Handled("SIGTERM"))
    /\ latch' = (latch \/ \E sig \in pendingSig : Handled(sig))
    /\ IF "SIGTERM" \in pendingSig /\ ~handlersInstalled
       THEN DefaultSigterm
       ELSE /\ pc' = "connect"
            /\ UNCHANGED <<xact, exitStatus, exitReason>>
    /\ UNCHANGED <<handlersInstalled, rc, timeout, elapsed, pglogical_ticker_naptime,
                   pglogical_ticker_database, confNaptime, confDatabase, confRestartTime,
                   main_arg, connTarget,
                   activity, postmasterAlive, interruptPending,
                   ticks, sinceTick, tickErrors>>
    /\ UNCHANGED <<cycleVars, launchVars>>

\* the connection target with the launch argument tested first
ConnectionTargetPrefersOid ==
    IF main_arg # 0
    THEN [by |-> "oid", db |-> NoDatabase, oid |-> main_arg]
    ELSE IF pglogical_ticker_database # NoDatabase
    THEN [by |-> "name", db |-> pglogical_ticker_database, oid |-> 0]
    ELSE [by |-> "oid", db |-> NoDatabase, oid |-> main_arg]

\* the connection target chosen at lines 99-114
ConnectionTarget ==
    IF pglogical_ticker_database # NoDatabase
    THEN [by |-> "name", db |-> pglogical_ticker_database, oid |-> 0]
    ELSE [by |-> "oid", db |-> NoDatabase, oid |-> main_arg]

\* BackgroundWorkerInitializeConnection[ByOid], SetConfigOption, elog,
\* initStringInfo; ok = FALSE when the connection call raises (for instance the
\* database does not exist): nothing catches it and the process ends
Connect(ok) ==
    /\ pc = "connect"
    /\ IF ok
       THEN /\ connTarget' = ConnectionTarget
            /\ pc' = "loop_top"
            /\ UNCHANGED <<xact, exitStatus, exitReason>>
       ELSE /\ RaiseError("connect_error")
            /\ UNCHANGED connTarget
    /\ UNCHANGED <<got_sighup, got_sigterm, latch, handlersInstalled, sigBlocked,
                   pendingSig, rc, timeout, elapsed, pglogical_ticker_naptime,
                   pglogical_ticker_database, confNaptime, confDatabase,
                   confRestartTime, main_arg, activity, postmasterAlive,
                   interruptPending, ticks, sinceTick, tickErrors>>
    /\ UNCHANGED <<cycleVars, launchVars>>

(***************************************************************************)
(* Main loop of pglogical_ticker_main.                                     *)
(***************************************************************************)
\* the loop test with the wrong flag
LoopCondWrongFlag == ~got_sighup

\* while (!got_sigterm)
LoopCond == ~got_sigterm

\* loop test at line 128; when it fails, proc_exit(1) at line 200
LoopTop ==
    /\ pc = "loop_top"
    /\ IF LoopCond
       THEN /\ pc' = "call_wait"
            /\ UNCHANGED <<exitStatus, exitReason, xact>>
       ELSE proc_exit(ExitCode, "shutdown")
    /\ UNCHANGED <<got_sighup, got_sigterm, latch, handlersInstalled, sigBlocked,
                   pendingSig, rc, timeout, elapsed, pglogical_ticker_naptime,
                   pglogical_ticker_database, confNaptime, confDatabase, confRestartTime,
                   main_arg, connTarget,
                   activity, postmasterAlive, interruptPending, ticks, sinceTick,
                   tickErrors>>
    /\ UNCHANGED <<cycleVars, launchVars>>

\* WaitLatch(MyLatch, ..., pglogical_ticker_naptime * 1000L, ...) is entered
WaitLatchCall ==
    /\ pc = "call_wait"
    /\ timeout' = pglogical_ticker_naptime * MsPerSec
    /\ elapsed' = 0
    /\ pc' = "wait"
    /\ UNCHANGED <<got_sighup, got_sigterm, latch, handlersInstalled, sigBlocked,
                   pendingSig, rc, pglogical_ticker_naptime, pglogical_ticker_database,
                   confNaptime, confDatabase, confRestartTime,
                   main_arg, connTarget, xact, activity, postmasterAlive,
                   interruptPending, exitStatus, exitReason, ticks, sinceTick,
                   tickErrors>>
    /\ reloaded' = FALSE
    /\ termAtWake' = FALSE
    /\ UNCHANGED owed
    /\ UNCHANGED launchVars

\* the wake events that have occurred for the current WaitLatch
Occurred ==
    (IF latch THEN {WL_LATCH_SET} ELSE {})
    \cup (IF elapsed >= timeout THEN {WL_TIMEOUT} ELSE {})
    \cup (IF ~postmasterAlive THEN {WL_POSTMASTER_DEATH} ELSE {})

\* WaitLatch returns a bit mask of the events that occurred; which of several
\* simultaneous events are reported depends on the server version
WaitLatchReturn ==
    /\ pc = "wait"
    /\ \E r \in SUBSET Occurred :
          /\ r # {}
          /\ rc' = r
    /\ pc' = "reset_latch"
    /\ UNCHANGED <<got_sighup, got_sigterm, latch, handlersInstalled, sigBlocked,
                   pendingSig, timeout, elapsed, pglogical_ticker_naptime,
                   pglogical_ticker_database, confNaptime, confDatabase, confRestartTime,
                   main_arg, connTarget, xact,
                   activity, postmasterAlive, interruptPending, exitStatus, exitReason,
                   ticks, sinceTick, tickErrors>>
    /\ termAtWake' = got_sigterm
    /\ UNCHANGED <<reloaded, owed, launchVars>>

\* ResetLatch(MyLatch)
ResetLatch ==
    /\ pc = "reset_latch"
    /\ latch' = FALSE
    /\ pc' = "check_pm"
    /\ UNCHANGED <<got_sighup, got_sigterm, handlersInstalled, sigBlocked, pendingSig,
                   rc, timeout, elapsed, pglogical_ticker_naptime,
                   pglogical_ticker_database, confNaptime, confDatabase, confRestartTime,
                   main_arg, connTarget, xact,
                   activity, postmasterAlive, interruptPending, exitStatus, exitReason,
                   ticks, sinceTick, tickErrors>>
    /\ UNCHANGED <<cycleVars, launchVars>>

\* rc == WL_POSTMASTER_DEATH: an equality test in place of the bit test
PostmasterDeathOnly(r) == r = {WL_POSTMASTER_DEATH}

\* rc & WL_POSTMASTER_DEATH
PostmasterDeathSeen(r) == WL_POSTMASTER_DEATH \in r

\* if (rc & WL_POSTMASTER_DEATH) proc_exit(1);
CheckPostmasterDeath ==
    /\ pc = "check_pm"
    /\ IF PostmasterDeathSeen(rc)
       THEN proc_exit(ExitCode, "postmaster_death")
       ELSE /\ pc' = "check_interrupts"
            /\ UNCHANGED <<exitStatus, exitReason, xact>>
    /\ UNCHANGED <<got_sighup, got_sigterm, latch, handlersInstalled, sigBlocked,
                   pendingSig, rc, timeout, elapsed, pglogical_ticker_naptime,
                   pglogical_ticker_database, confNaptime, confDatabase, confRestartTime,
                   main_arg, connTarget,
                   activity, postmasterAlive, interruptPending, ticks, sinceTick,
                   tickErrors>>
    /\ UNCHANGED <<cycleVars, launchVars>>

\* CHECK_FOR_INTERRUPTS(): a pending host interrupt is raised as an error.
\* SIGTERM is not such an interrupt: the worker replaced its handler.
CheckForInterrupts ==
    /\ pc = "check_interrupts"
    /\ IF interruptPending
       THEN RaiseError("interrupt")
       ELSE /\ pc' = "check_sighup"
            /\ UNCHANGED <<exitStatus, exitReason, xact>>
    /\ UNCHANGED <<got_sighup, got_sigterm, latch, handlersInstalled, sigBlocked,
                   pendingSig, rc, timeout, elapsed, pglogical_ticker_naptime,
                   pglogical_ticker_database, confNaptime, confDatabase, confRestartTime,
                   main_arg, connTarget,
                   activity, postmasterAlive, interruptPending, ticks, sinceTick,
                   tickErrors>>
    /\ UNCHANGED <<cycleVars, launchVars>>

\* the reload branch that clears the flag without re-reading the configuration
CheckSighupSkipsReload ==
    /\ pc = "check_sighup"
    /\ IF got_sighup
       THEN /\ got_sighup' = FALSE
            /\ pc' = "start_xact"
       ELSE /\ pc' = "start_xact"
            /\ UNCHANGED got_sighup
    /\ owed' = IF got_sighup THEN owed \ {"SIGHUP"} ELSE owed
    /\ UNCHANGED <<got_sigterm, latch, handlersInstalled, sigBlocked, pendingSig, rc,
                   timeout, elapsed, pglogical_ticker_naptime, pglogical_ticker_database,
                   confNaptime, confDatabase, confRestartTime,
                   main_arg, connTarget, xact, activity, postmasterAlive,
                   interruptPending, exitStatus, exitReason, ticks, sinceTick,
                   tickErrors>>
    /\ UNCHANGED <<reloaded, termAtWake, launchVars>>

\* if (got_sighup) { got_sighup = false; ... }
CheckSighup ==
    /\ pc = "check_sighup"
    /\ IF got_sighup
       THEN /\ got_sighup' = FALSE
            /\ pc' = "process_config"
       ELSE /\ pc' = "start_xact"
            /\ UNCHANGED got_sighup
    /\ owed' = IF got_sighup THEN owed \ {"SIGHUP"} ELSE owed
    /\ UNCHANGED <<got_sigterm, latch, handlersInstalled, sigBlocked, pendingSig, rc,
                   timeout, elapsed, pglogical_ticker_naptime, pglogical_ticker_database,
                   confNaptime, confDatabase, confRestartTime,
                   main_arg, connTarget, xact, activity, postmasterAlive,
                   interruptPending, exitStatus, exitReason, ticks, sinceTick,
                   tickErrors>>
    /\ UNCHANGED <<reloaded, termAtWake, launchVars>>

\* ProcessConfigFile(PGC_SIGHUP): the three GUCs of this file, all declared
\* PGC_SIGHUP, take the values of the configuration file
ProcessConfigFile ==
    /\ pc = "process_config"
    /\ pglogical_ticker_naptime' = confNaptime
    /\ pglogical_ticker_database' = confDatabase
    /\ pglogical_ticker_restart_time' = confRestartTime
    /\ pc' = "start_xact"
    /\ UNCHANGED <<got_sighup, got_sigterm, latch, handlersInstalled, sigBlocked,
                   pendingSig, rc, timeout, elapsed, confNaptime, confDatabase,
                   confRestartTime, main_arg, connTarget, xact, activity,
                   postmasterAlive, interruptPending, exitStatus, exitReason, ticks,
                   sinceTick, tickErrors>>
    /\ reloaded' = TRUE
    /\ UNCHANGED <<termAtWake, owed>>
    /\ UNCHANGED <<lpc, db_oid, worker, handle, status, pid, result, staticWorker,
                   slots>>

\* SetCurrentStatementStartTimestamp .. pgstat_report_activity(STATE_RUNNING):
\* the unit of work begins; ok = FALSE when one of the calls raises an error
StartTransaction(ok) ==
    /\ pc = "start_xact"
    /\ ticks' = Min(ticks + 1, MaxTicks)
    /\ sinceTick' = 0
    /\ IF ok
       THEN /\ xact' = "in_progress"
            /\ activity' = "running"
            /\ pc' = "execute"
            /\ UNCHANGED <<exitStatus, exitReason, tickErrors>>
       ELSE /\ RaiseError("tick_error")
            /\ tickErrors' = TRUE
            /\ UNCHANGED activity
    /\ UNCHANGED <<got_sighup, got_sigterm, latch, handlersInstalled, sigBlocked,
                   pendingSig, rc, timeout, elapsed, pglogical_ticker_naptime,
                   pglogical_ticker_database, confNaptime, confDatabase, confRestartTime,
                   main_arg, connTarget,
                   postmasterAlive, interruptPending>>
    /\ UNCHANGED <<cycleVars, launchVars>>

\* the statement step that takes up a pending reload inside the transaction
SPIExecuteReloads(ok) ==
    /\ pc = "execute"
    /\ pglogical_ticker_naptime' = IF got_sighup THEN confNaptime
                                 ELSE pglogical_ticker_naptime
    /\ pglogical_ticker_database' = IF got_sighup THEN confDatabase
                                  ELSE pglogical_ticker_database
    /\ IF ok
       THEN /\ pc' = "commit"
            /\ UNCHANGED <<exitStatus, exitReason, xact, tickErrors>>
       ELSE /\ RaiseError("tick_error")
            /\ tickErrors' = TRUE
    /\ UNCHANGED <<got_sighup, got_sigterm, latch, handlersInstalled, sigBlocked,
                   pendingSig, rc, timeout, elapsed, confNaptime, confDatabase,
                   confRestartTime, main_arg, connTarget, activity, postmasterAlive,
                   interruptPending, ticks, sinceTick>>
    /\ UNCHANGED <<cycleVars, launchVars>>

\* SPI_execute("SELECT pglogical_ticker.tick();", false, 0)
SPIExecute(ok) ==
    /\ pc = "execute"
    /\ IF ok
       THEN /\ pc' = "commit"
            /\ UNCHANGED <<exitStatus, exitReason, xact, tickErrors>>
       ELSE /\ RaiseError("tick_error")
            /\ tickErrors' = TRUE
    /\ UNCHANGED <<got_sighup, got_sigterm, latch, handlersInstalled, sigBlocked,
                   pendingSig, rc, timeout, elapsed, pglogical_ticker_naptime,
                   pglogical_ticker_database, confNaptime, confDatabase, confRestartTime,
                   main_arg, connTarget,
                   activity, postmasterAlive, interruptPending, ticks, sinceTick>>
    /\ UNCHANGED <<cycleVars, launchVars>>

\* the commit step without the closing pgstat_report_activity(STATE_IDLE)
CommitLeavesRunning(ok) ==
    /\ pc = "commit"
    /\ IF ok
       THEN /\ xact' = "idle"
            /\ UNCHANGED activity
            /\ pc' = "loop_top"
            /\ UNCHANGED <<exitStatus, exitReason, tickErrors>>
       ELSE /\ RaiseError("tick_error")
            /\ tickErrors' = TRUE
            /\ UNCHANGED activity
    /\ UNCHANGED <<got_sighup, got_sigterm, latch, handlersInstalled, sigBlocked,
                   pendingSig, rc, timeout, elapsed, pglogical_ticker_naptime,
                   pglogical_ticker_database, confNaptime, confDatabase, confRestartTime,
                   main_arg, connTarget,
                   postmasterAlive, interruptPending, ticks, sinceTick>>
    /\ UNCHANGED <<cycleVars, launchVars>>

\* SPI_finish .. CommitTransactionCommand .. pgstat_report_activity(STATE_IDLE)
CommitTransaction(ok) ==
    /\ pc = "commit"
    /\ IF ok
       THEN /\ xact' = "idle"
            /\ activity' = "idle"
            /\ pc' = "loop_top"
            /\ UNCHANGED <<exitStatus, exitReason, tickErrors>>
       ELSE /\ RaiseError("tick_error")
            /\ tickErrors' = TRUE
            /\ UNCHANGED activity
    /\ UNCHANGED <<got_sighup, got_sigterm, latch, handlersInstalled, sigBlocked,
                   pendingSig, rc, timeout, elapsed, pglogical_ticker_naptime,
                   pglogical_ticker_database, confNaptime, confDatabase, confRestartTime,
                   main_arg, connTarget,
                   postmasterAlive, interruptPending, ticks, sinceTick>>
    /\ UNCHANGED <<cycleVars, launchVars>>

\* the steps of the worker process itself
WorkerStep ==
    \/ InstallHandlers
    \/ BackgroundWorkerUnblockSignals
    \/ \E ok \in BOOLEAN : Connect(ok)
    \/ LoopTop
    \/ WaitLatchCall
    \/ WaitLatchReturn
    \/ ResetLatch
    \/ CheckPostmasterDeath
    \/ CheckForInterrupts
    \/ CheckSighup
    \/ ProcessConfigFile
    \/ \E ok \in BOOLEAN : StartTransaction(ok)
    \/ \E ok \in BOOLEAN : SPIExecute(ok)
    \/ \E ok \in BOOLEAN : CommitTransaction(ok)

(***************************************************************************)
(* Environment of the worker.                                              *)
(***************************************************************************)
\* SIGTERM is sent to the live worker: kept pending while signals are blocked,
\* else the handler runs
SendSigterm ==
    /\ pc # "terminated"
    /\ owed' = owed \cup {"SIGTERM"}
    /\ IF sigBlocked
       THEN /\ pendingSig' = pendingSig \cup {"SIGTERM"}
            /\ UNCHANGED <<got_sighup, got_sigterm, latch, pc, xact, exitStatus,
                           exitReason>>
       ELSE IF handlersInstalled
       THEN /\ pglogical_ticker_sigterm
            /\ UNCHANGED <<pendingSig, pc, xact, exitStatus, exitReason>>
       ELSE /\ DefaultSigterm
            /\ UNCHANGED <<pendingSig, got_sighup, got_sigterm, latch>>
    /\ UNCHANGED <<handlersInstalled, sigBlocked, rc, timeout, elapsed,
                   pglogical_ticker_naptime, pglogical_ticker_database, confNaptime, confDatabase, confRestartTime,
                   main_arg, connTarget, activity, postmasterAlive,
                   interruptPending, ticks, sinceTick, tickErrors>>
    /\ UNCHANGED <<reloaded, termAtWake, launchVars>>

\* SIGHUP is sent to the live worker
SendSighup ==
    /\ pc # "terminated"
    /\ owed' = owed \cup {"SIGHUP"}
    /\ IF sigBlocked
       THEN /\ pendingSig' = pendingSig \cup {"SIGHUP"}
            /\ UNCHANGED <<got_sighup, got_sigterm, latch>>
       ELSE IF handlersInstalled
       THEN /\ pglogical_ticker_sighup
            /\ UNCHANGED pendingSig
       ELSE UNCHANGED <<pendingSig, got_sighup, got_sigterm, latch>>
    /\ UNCHANGED <<pc, handlersInstalled, sigBlocked, rc, timeout, elapsed,
                   pglogical_ticker_naptime, pglogical_ticker_database, confNaptime, confDatabase, confRestartTime,
                   main_arg, connTarget, xact, activity, postmasterAlive,
                   interruptPending, exitStatus, exitReason, ticks, sinceTick,
                   tickErrors>>
    /\ UNCHANGED <<reloaded, termAtWake, launchVars>>

\* the postmaster dies
PostmasterDies ==
    /\ postmasterAlive
    /\ pc # "terminated"
    /\ postmasterAlive' = FALSE
    /\ UNCHANGED <<pc, got_sighup, got_sigterm, latch, handlersInstalled, sigBlocked,
                   pendingSig, rc, timeout, elapsed, pglogical_ticker_naptime,
                   pglogical_ticker_database, confNaptime, confDatabase, confRestartTime,
                   main_arg, connTarget, xact,
                   activity, interruptPending, exitStatus, exitReason, ticks, sinceTick,
                   tickErrors>>
    /\ UNCHANGED <<cycleVars, launchVars>>

\* the host posts an interrupt for the worker (e.g. a query cancel), which
\* also sets its latch
HostInterrupt ==
    /\ pc \notin {"install_handlers", "unblock", "terminated"}
    /\ ~interruptPending
    /\ interruptPending' = TRUE
    /\ latch' = TRUE
    /\ UNCHANGED <<pc, got_sighup, got_sigterm, handlersInstalled, sigBlocked,
                   pendingSig, rc, timeout, elapsed, pglogical_ticker_naptime,
                   pglogical_ticker_database, confNaptime, confDatabase, confRestartTime,
                   main_arg, connTarget, xact,
                   activity, postmasterAlive, exitStatus, exitReason, ticks, sinceTick,
                   tickErrors>>
    /\ UNCHANGED <<cycleVars, launchVars>>

\* one second passes while the worker is blocked in WaitLatch (the other
\* steps of the loop are taken to be instantaneous)
TimePasses ==
    /\ pc = "wait"
    /\ elapsed < timeout
    /\ elapsed' = elapsed + MsPerSec
    /\ sinceTick' = Min(sinceTick + MsPerSec, GapCap)
    /\ UNCHANGED <<pc, got_sighup, got_sigterm, latch, handlersInstalled, sigBlocked,
                   pendingSig, rc, timeout, pglogical_ticker_naptime,
                   pglogical_ticker_database, confNaptime, confDatabase, confRestartTime,
                   main_arg, connTarget, xact,
                   activity, postmasterAlive, interruptPending, exitStatus, exitReason,
                   ticks, tickErrors>>
    /\ UNCHANGED <<cycleVars, launchVars>>

\* an administrator edits the configuration file: pglogical_ticker.naptime,
\* pglogical_ticker.database and pglogical_ticker.restart_time (all PGC_SIGHUP)
EditConfig ==
    /\ pc # "terminated"
    /\ \E n \in Naptimes, d \in Databases, r \in FileRestartTimes :
          /\ <<n, d, r>> # <<confNaptime, confDatabase, confRestartTime>>
          /\ confNaptime' = n
          /\ confDatabase' = d
          /\ confRestartTime' = r
    /\ UNCHANGED <<pc, got_sighup, got_sigterm, latch, handlersInstalled, sigBlocked,
                   pendingSig, rc, timeout, elapsed, pglogical_ticker_naptime,
                   pglogical_ticker_database, main_arg, connTarget, xact, activity,
                   postmasterAlive, interruptPending, exitStatus, exitReason, ticks,
                   sinceTick, tickErrors>>
    /\ UNCHANGED <<cycleVars, launchVars>>

(***************************************************************************)
(* pglogical_ticker_launch and the postmaster's background-worker slots.   *)
(***************************************************************************)
BGWH_STARTED == "BGWH_STARTED"
BGWH_STOPPED == "BGWH_STOPPED"
BGWH_POSTMASTER_DIED == "BGWH_POSTMASTER_DIED"

\* ERRCODE_INSUFFICIENT_RESOURCES is SQLSTATE 53000
ERRCODE_INSUFFICIENT_RESOURCES == "53000"

\* values of pglogical_ticker.restart_time (the GUC allows -1..INT_MAX)
RestartTimes == {BGW_NEVER_RESTART, 0, DefaultRestartTime}
\* process ids the postmaster hands out, one for each slot
Pids == 4242..(4242 + MaxSlots - 1)
SlotIds == 1..MaxSlots

\* a slot no worker is registered in
FreeSlot == [state |-> "free", pid |-> 0, bgw_restart_time |-> 0]

NoWorker == [bgw_restart_time |-> 0, bgw_main_arg |-> 0, bgw_notify_pid |-> "none",
             bgw_function_name |-> "none"]

NoResult == [kind |-> "none", value |-> 0, errcode |-> "none", errmsg |-> "none"]

\* nothing has been registered and no call has been made
LaunchFresh ==
    /\ db_oid = 0
    /\ worker = NoWorker
    /\ handle = 0
    /\ status = "none"
    /\ pid = 0
    /\ result = NoResult
    /\ pglogical_ticker_restart_time \in RestartTimes
    /\ staticWorker = NoWorker
    /\ slots = [i \in SlotIds |-> FreeSlot]

\* the backend is not inside pglogical_ticker_launch
LaunchIdle ==
    /\ lpc = "idle"
    /\ LaunchFresh

\* the BackgroundWorker filled in by _PG_init at lines 262-281
StaticDescriptor ==
    [bgw_restart_time |-> pglogical_ticker_restart_time,
     bgw_main_arg |-> 0,
     bgw_notify_pid |-> "0",
     bgw_function_name |-> "pglogical_ticker_main"]

\* _PG_init in the postmaster: outside shared_preload_libraries processing, or
\* with pglogical_ticker.database unset, nothing is registered; else
\* RegisterBackgroundWorker is called pglogical_ticker_total_workers times
PG_init(preload) ==
    /\ lpc = "pg_init"
    /\ IF preload /\ pglogical_ticker_database # NoDatabase
       THEN /\ staticWorker' = StaticDescriptor
            /\ slots' = [i \in SlotIds |->
                            IF i <= pglogical_ticker_total_workers
                            THEN [state |-> "registered", pid |-> 0,
                                  bgw_restart_time |-> StaticDescriptor.bgw_restart_time]
                            ELSE slots[i]]
       ELSE UNCHANGED <<staticWorker, slots>>
    /\ lpc' = "idle"
    /\ UNCHANGED <<db_oid, worker, handle, status, pid, result,
                   pglogical_ticker_restart_time, postmasterAlive, workerVars>>

\* SELECT pglogical_ticker.launch(oid): db_oid = PG_GETARG_OID(0)
LaunchCall(oid) ==
    /\ lpc = "idle"
    /\ db_oid' = oid
    /\ worker' = NoWorker
    /\ handle' = 0
    /\ status' = "none"
    /\ pid' = 0
    /\ result' = NoResult
    /\ lpc' = "build"
    /\ UNCHANGED <<pglogical_ticker_restart_time, slots, postmasterAlive, workerVars>>
    /\ UNCHANGED staticWorker

\* the descriptor with a negative restart time rewritten to 0
LaunchDescriptorClamped ==
    [bgw_restart_time |-> IF pglogical_ticker_restart_time < 0
                          THEN 0 ELSE pglogical_ticker_restart_time,
     bgw_main_arg |-> db_oid,
     bgw_notify_pid |-> "MyProcPid",
     bgw_function_name |-> "pglogical_ticker_main"]

\* the BackgroundWorker filled in at lines 300-313
LaunchDescriptor ==
    [bgw_restart_time |-> pglogical_ticker_restart_time,
     bgw_main_arg |-> db_oid,
     bgw_notify_pid |-> "MyProcPid",
     bgw_function_name |-> "pglogical_ticker_main"]

\* memset(&worker, 0, ...) .. worker.bgw_notify_pid = MyProcPid
BuildDescriptor ==
    /\ lpc = "build"
    /\ worker' = LaunchDescriptor
    /\ lpc' = "register"
    /\ UNCHANGED <<db_oid, handle, status, pid, result, pglogical_ticker_restart_time,
                   slots, postmasterAlive, workerVars>>
    /\ UNCHANGED staticWorker

\* the slots RegisterDynamicBackgroundWorker may take
FreeSlots == {i \in SlotIds : slots[i].state = "free"}

\* the value returned when RegisterDynamicBackgroundWorker fails: PG_RETURN_NULL()
RegisterFailed == [kind |-> "null", value |-> 0, errcode |-> "none", errmsg |-> "none"]

\* if (!RegisterDynamicBackgroundWorker(&worker, &handle)) PG_RETURN_NULL();
\* registration takes the first free slot and fails when there is none
Register ==
    /\ lpc = "register"
    /\ IF FreeSlots # {}
       THEN LET i == CHOOSE j \in FreeSlots : \A k \in FreeSlots : j <= k
            IN /\ slots' = [slots EXCEPT ![i] =
                              [state |-> "registered", pid |-> 0,
                               bgw_restart_time |-> worker.bgw_restart_time]]
               /\ handle' = i
               /\ lpc' = "wait"
               /\ UNCHANGED result
       ELSE /\ result' = RegisterFailed
            /\ lpc' = "done"
            /\ UNCHANGED <<slots, handle>>
    /\ UNCHANGED <<db_oid, worker, status, pid, pglogical_ticker_restart_time,
                   postmasterAlive, workerVars>>
    /\ UNCHANGED staticWorker

\* status = WaitForBackgroundWorkerStartup(handle, &pid): blocks while the
\* worker is registered but not yet started and the postmaster is alive
WaitForBackgroundWorkerStartup ==
    /\ lpc = "wait"
    /\ \/ /\ slots[handle].state = "started"
          /\ status' = BGWH_STARTED
          /\ pid' = slots[handle].pid
       \/ /\ slots[handle].state \in {"free", "stopped"}
          /\ status' = BGWH_STOPPED
          /\ UNCHANGED pid
       \/ /\ slots[handle].state = "registered"
          /\ ~postmasterAlive
          /\ status' = BGWH_POSTMASTER_DIED
          /\ UNCHANGED pid
    /\ lpc' = "translate"
    /\ UNCHANGED <<db_oid, worker, handle, result, pglogical_ticker_restart_time, slots,
                   postmasterAlive, workerVars>>
    /\ UNCHANGED staticWorker

\* ereport(ERROR, (errcode(code), errmsg(msg), ...))
ErrorResult(code, msg) == [kind |-> "error", value |-> 0, errcode |-> code, errmsg |-> msg]

\* BGWH_STOPPED answered like a failed registration, with NULL
StoppedReturnsNull == RegisterFailed

\* the outcome of lines 320-324 for BGWH_STOPPED
StoppedResult ==
    ErrorResult(ERRCODE_INSUFFICIENT_RESOURCES, "could not start background process")

\* the outcome of lines 325-329 for BGWH_POSTMASTER_DIED
PostmasterDiedResult ==
    ErrorResult(ERRCODE_INSUFFICIENT_RESOURCES,
                "cannot start background processes without postmaster")

\* PG_RETURN_INT32(pid): pid_t is a 32-bit int, which the Datum carries unchanged
StartedResult(p) == [kind |-> "int32", value |-> p, errcode |-> "none",
                     errmsg |-> "none"]

\* the translation without the test for BGWH_STOPPED
LaunchResultNoStoppedTest(st, p) ==
    IF st = BGWH_POSTMASTER_DIED THEN PostmasterDiedResult
    ELSE StartedResult(p)

\* lines 320-332: what the call gives its caller for a status and a pid
LaunchResult(st, p) ==
    IF st = BGWH_STOPPED THEN StoppedResult
    ELSE IF st = BGWH_POSTMASTER_DIED THEN PostmasterDiedResult
    ELSE StartedResult(p)

\* the translation of the status at lines 320-332
Translate ==
    /\ lpc = "translate"
    /\ result' = LaunchResult(status, pid)
    /\ lpc' = "done"
    /\ UNCHANGED <<db_oid, worker, handle, status, pid, pglogical_ticker_restart_time,
                   slots, postmasterAlive, workerVars>>
    /\ UNCHANGED staticWorker

\* the call is over; the backend may call again
LaunchReturn ==
    /\ lpc = "done"
    /\ lpc' = "idle"
    /\ UNCHANGED <<db_oid, worker, handle, status, pid, result,
                   pglogical_ticker_restart_time, slots, postmasterAlive, workerVars>>
    /\ UNCHANGED staticWorker

\* the calling backend takes up a changed pglogical_ticker.restart_time between calls
ReloadRestartTime ==
    /\ lpc = "idle"
    /\ \E t \in RestartTimes :
          /\ t # pglogical_ticker_restart_time
          /\ pglogical_ticker_restart_time' = t
    /\ UNCHANGED <<lpc, db_oid, worker, handle, status, pid, result, slots,
                   postmasterAlive, workerVars>>
    /\ UNCHANGED staticWorker

\* process ids of the workers now running
LivePids == {slots[i].pid : i \in {j \in SlotIds : slots[j].state = "started"}}

\* the postmaster starts a registered worker
HostStartWorker(i, p) ==
    /\ postmasterAlive
    /\ slots[i].state = "registered"
    /\ p \notin LivePids
    /\ slots' = [slots EXCEPT ![i].state = "started", ![i].pid = p]
    /\ UNCHANGED <<lpc, db_oid, worker, handle, status, pid, result,
                   pglogical_ticker_restart_time, postmasterAlive, workerVars>>
    /\ UNCHANGED staticWorker

\* a worker fails to start or exits (pglogical_ticker_main always exits with
\* status 1): with bgw_restart_time = -1 (BGW_NEVER_RESTART) the postmaster
\* frees the slot, else it keeps the registration for a restart
HostWorkerStops(i) ==
    /\ postmasterAlive
    /\ slots[i].state \in {"registered", "started"}
    /\ slots' = [slots EXCEPT ![i] =
                    IF slots[i].bgw_restart_time = BGW_NEVER_RESTART
                    THEN FreeSlot
                    ELSE [slots[i] EXCEPT !.state = "stopped", !.pid = 0]]
    /\ UNCHANGED <<lpc, db_oid, worker, handle, status, pid, result,
                   pglogical_ticker_restart_time, postmasterAlive, workerVars>>
    /\ UNCHANGED staticWorker

\* the postmaster starts a stopped worker again once its bgw_restart_time has
\* passed (a stopped slot exists only for bgw_restart_time >= 0)
HostRestartWorker(i, p) ==
    /\ postmasterAlive
    /\ slots[i].state = "stopped"
    /\ p \notin LivePids
    /\ slots' = [slots EXCEPT ![i].state = "started", ![i].pid = p]
    /\ UNCHANGED <<lpc, db_oid, worker, handle, status, pid, result,
                   pglogical_ticker_restart_time, staticWorker, postmasterAlive,
                   workerVars>>

\* the postmaster dies while a backend may be waiting for it
LaunchPostmasterDies ==
    /\ postmasterAlive
    /\ postmasterAlive' = FALSE
    /\ UNCHANGED <<launchVars, workerVars>>

\* no worker process is modelled next to the launching backend
WorkerIdle ==
    /\ pc = "install_handlers"
    /\ got_sighup = FALSE
    /\ got_sigterm = FALSE
    /\ latch = FALSE
    /\ handlersInstalled = FALSE
    /\ sigBlocked = TRUE
    /\ pendingSig = {}
    /\ rc = {}
    /\ timeout = 0
    /\ elapsed = 0
    /\ confNaptime = 1
    /\ pglogical_ticker_naptime = confNaptime
    /\ pglogical_ticker_database \in Databases
    /\ confDatabase = pglogical_ticker_database
    /\ confRestartTime = DefaultRestartTime
    /\ main_arg = 0
    /\ connTarget = [by |-> "none", db |-> NoDatabase, oid |-> 0]
    /\ xact = "idle"
    /\ activity = "unset"
    /\ interruptPending = FALSE
    /\ exitStatus = -1
    /\ exitReason = "none"
    /\ ticks = 0
    /\ sinceTick = 0
    /\ tickErrors = FALSE
    /\ reloaded = FALSE
    /\ termAtWake = FALSE
    /\ owed = {}

\* the postmaster is about to load the library
LaunchInit ==
    /\ WorkerIdle
    /\ postmasterAlive = TRUE
    /\ lpc = "pg_init"
    /\ LaunchFresh

LaunchNext ==
    \/ \E preload \in BOOLEAN : PG_init(preload)
    \/ \E oid \in DbOids : LaunchCall(oid)
    \/ BuildDescriptor
    \/ Register
    \/ WaitForBackgroundWorkerStartup
    \/ Translate
    \/ LaunchReturn
    \/ ReloadRestartTime
    \/ \E i \in SlotIds, p \in Pids : HostStartWorker(i, p)
    \/ \E i \in SlotIds : HostWorkerStops(i)
    \/ \E i \in SlotIds, p \in Pids : HostRestartWorker(i, p)
    \/ LaunchPostmasterDies

LaunchSpec == LaunchInit /\ [][LaunchNext]_vars

\* state of a freshly forked worker entering pglogical_ticker_main
Init ==
    /\ pc = "install_handlers"
    /\ got_sighup = FALSE
    /\ got_sigterm = FALSE
    /\ latch = FALSE
    /\ handlersInstalled = FALSE
    /\ sigBlocked = TRUE
    /\ pendingSig = {}
    /\ rc = {}
    /\ timeout = 0
    /\ elapsed = 0
    /\ confNaptime \in Naptimes
    /\ pglogical_ticker_naptime = confNaptime
    /\ pglogical_ticker_database \in Databases
    /\ confDatabase = pglogical_ticker_database
    /\ confRestartTime = DefaultRestartTime
    /\ main_arg \in DbOids
    /\ connTarget = [by |-> "none", db |-> NoDatabase, oid |-> 0]
    /\ xact = "idle"
    /\ activity = "unset"
    /\ postmasterAlive = TRUE
    /\ interruptPending = FALSE
    /\ exitStatus = -1
    /\ exitReason = "none"
    /\ ticks = 0
    /\ sinceTick = 0
    /\ tickErrors = FALSE
    /\ reloaded = FALSE
    /\ termAtWake = FALSE
    /\ owed = {}
    /\ LaunchIdle
    /\ pglogical_ticker_restart_time = DefaultRestartTime

Next ==
    \/ WorkerStep
    \/ SendSigterm
    \/ SendSighup
    \/ PostmasterDies
    \/ HostInterrupt
    \/ TimePasses
    \/ EditConfig

Spec == Init /\ [][Next]_vars

\* the operating system schedules the worker: a step of it that stays possible is taken
FairSpec == Spec /\ WF_vars(WorkerStep)

(***************************************************************************)
(* Properties of the worker's run loop.                                    *)
(***************************************************************************)
\* the worker is inside a unit of work
InTick == pc \in {"execute", "commit"}

\* C1: a reload signal never triggers a unit of work by itself: in a cycle
\* whose wait was ended early by the latch (no timeout) and in which the
\* configuration was re-read, no transaction is begun and the tick statement is
\* not executed.
C1_ReloadNeverTicks ==
    (reloaded /\ ~termAtWake /\ WL_TIMEOUT \notin rc /\ elapsed < timeout)
        => (~InTick /\ xact = "idle")

\* C2: no unit of work is started once shutdown has been requested: if
\* got_sigterm is true when the wait returns, the worker does not begin a
\* transaction or execute the tick statement in that cycle.
C2_NoTickAfterShutdown ==
    termAtWake => (~InTick /\ xact = "idle")

\* C3: an error raised by a unit of work (its begin, its statement or its
\* commit) never terminates the worker: after such an error the worker is
\* terminated only by a shutdown request or the postmaster's death.
C3_TickErrorNeverTerminates ==
    tickErrors => (pc # "terminated" \/ exitReason \in {"shutdown", "postmaster_death"})

\* C4: the time between the starts of two consecutive units of work is never
\* less than the interval the wait between them was given.
C4_TickSpacing ==
    [][(pc = "start_xact" /\ pc' = "execute" /\ ticks >= 1)
          => sinceTick >= timeout]_vars

\* C5: a shutdown signal delivered while the worker is blocked in WaitLatch
\* ends the wait early (the latch is set, so the wait can return before its
\* timeout), no further wait is begun once got_sigterm is seen in or after a
\* wait, and the worker eventually terminates.
C5_ShutdownEndsWait ==
    /\ []((pc = "wait" /\ got_sigterm) => latch)
    /\ [][(got_sigterm /\ pc # "call_wait")
             => (pc' # "call_wait" /\ (pc' = "wait" => pc = "wait"))]_vars
    /\ ((pc = "wait" /\ got_sigterm) ~> (pc = "terminated"))

\* C5 witness: the worker terminated through the loop exit after a wait that
\* SIGTERM ended before its timeout
C5_Witness ==
    /\ pc = "terminated"
    /\ exitReason = "shutdown"
    /\ termAtWake
    /\ rc = {WL_LATCH_SET}
    /\ elapsed < timeout

\* C6: once WaitLatch has returned WL_POSTMASTER_DEATH the worker only resets
\* the latch and exits: it re-reads no configuration, begins no transaction and
\* executes no unit of work, whatever flags or other wake events are pending.
C6_PostmasterDeathIsFatal ==
    /\ [](WL_POSTMASTER_DEATH \in rc
             => /\ pc \in {"reset_latch", "check_pm", "terminated"}
                /\ (pc = "terminated" => exitReason = "postmaster_death"))
    /\ [][(WL_POSTMASTER_DEATH \in rc)
             => (UNCHANGED <<pglogical_ticker_naptime, reloaded, xact, activity, ticks>>)]_vars

\* C6 witness: the worker exited on postmaster death although the latch was
\* reported set too and both signal flags were pending
C6_Witness ==
    /\ pc = "terminated"
    /\ exitReason = "postmaster_death"
    /\ WL_LATCH_SET \in rc
    /\ WL_POSTMASTER_DEATH \in rc
    /\ got_sighup
    /\ got_sigterm

(***************************************************************************)
(* Properties of pglogical_ticker_launch.                                  *)
(***************************************************************************)
\* the call has produced its outcome
LaunchOver == lpc \in {"done", "idle"}

\* C7: when the start wait reports BGWH_STARTED with process id p the call
\* returns exactly p as an int32, and it returns a process id only when the
\* status is BGWH_STARTED.
C7_StartedReturnsPid ==
    /\ (LaunchOver /\ status = BGWH_STARTED)
          => (result.kind = "int32" /\ result.value = pid /\ pid \in Pids)
    /\ (result.kind = "int32") => (status = BGWH_STARTED)

\* C7 witness: the host reported STARTED(4242) and the call returned 4242
C7_Witness ==
    /\ lpc = "done"
    /\ status = BGWH_STARTED
    /\ pid = 4242
    /\ result.kind = "int32"
    /\ result.value = 4242

\* C8: for BGWH_POSTMASTER_DIED the call fails with an error whose error code
\* differs from the one raised for BGWH_STOPPED.
C8_PostmasterDiedDistinctClass ==
    (LaunchOver /\ status = BGWH_POSTMASTER_DIED)
        => (result.kind = "error" /\ result.errcode # StoppedResult.errcode)

\* C9: for BGWH_STOPPED the call raises an insufficient-resources error and
\* returns neither a process id nor NULL.
C9_StoppedRaisesInsufficientResources ==
    (LaunchOver /\ status = BGWH_STOPPED)
        => /\ result.kind = "error"
           /\ result.errcode = "53000"
           /\ result.errmsg = "could not start background process"

\* C9 witness: the worker registered, stopped before its start was confirmed,
\* and the call ended with the error
C9_Witness ==
    /\ lpc = "done"
    /\ status = BGWH_STOPPED
    /\ handle \in SlotIds
    /\ result.kind = "error"

\* the registration of the current call failed: the call is over and holds
\* no handle, so no slot was taken for its descriptor
RegistrationFailed == LaunchOver /\ worker # NoWorker /\ handle = 0

\* C10: when registration fails the call raises a resource-exhaustion error
\* (no normal return value) and never enters the start wait (no status was
\* obtained).
C10_RegisterFailureRaises ==
    RegistrationFailed
        => /\ result.kind = "error"
           /\ result.errcode = ERRCODE_INSUFFICIENT_RESOURCES
           /\ status = "none"

\* C11: after the call failed with a launch error, no registration and no
\* live worker of its descriptor remains, whatever the restart policy: the slot
\* its handle names is free (the registry of a dead postmaster counts as gone).
C11_NoPartialState ==
    (LaunchOver /\ result.kind = "error" /\ handle \in SlotIds /\ postmasterAlive)
        => slots[handle].state = "free"

\* C12: the restart policy put into a launch descriptor, by _PG_init and by
\* pglogical_ticker_launch, is the current pglogical_ticker.restart_time
\* unchanged, and the slot the descriptor is registered in carries that value.
C12_RestartPolicyPassedThrough ==
    [][/\ (worker' # worker /\ worker' # NoWorker)
            => worker'.bgw_restart_time = pglogical_ticker_restart_time
       /\ (staticWorker' # staticWorker)
            => staticWorker'.bgw_restart_time = pglogical_ticker_restart_time
       /\ \A i \in SlotIds :
            (slots[i].state = "free" /\ slots'[i].state = "registered")
               => slots'[i].bgw_restart_time = pglogical_ticker_restart_time]_vars

\* C12 witness: a static and a dynamic worker are both registered with -1
C12_Witness ==
    /\ staticWorker # NoWorker
    /\ staticWorker.bgw_restart_time = BGW_NEVER_RESTART
    /\ worker # NoWorker
    /\ worker.bgw_restart_time = BGW_NEVER_RESTART
    /\ handle \in SlotIds
    /\ slots[handle].state = "registered"
    /\ slots[handle].bgw_restart_time = BGW_NEVER_RESTART

(***************************************************************************)
(* Further properties of pglogical_ticker_main.                            *)
(***************************************************************************)
\* C13: every termination of pglogical_ticker_main carries a non-zero exit
\* status, and the loop exit after a shutdown request and the exit on
\* postmaster death carry the same status.
C13_NonZeroExit ==
    /\ (pc = "terminated") => (exitStatus # 0)
    /\ (pc = "terminated" /\ exitReason \in {"shutdown", "postmaster_death"})
          => (exitStatus = ExitCode)

\* C13 witness: the worker left through the loop exit after a shutdown request
C13_Witness ==
    /\ pc = "terminated"
    /\ exitReason = "shutdown"
    /\ got_sigterm
    /\ exitStatus = ExitCode

\* C14: the worker never enters the interruptible wait with got_sighup still
\* true: whenever WaitLatch is called, a reload request delivered before has
\* already been served.
C14_NeverWaitsWithSighup ==
    [][(pc = "call_wait" /\ pc' = "wait") => ~got_sighup]_vars

\* C14 as amended: the worker may call WaitLatch with got_sighup true, but it
\* never blocks there (the latch is set whenever it is in the wait with the
\* flag true), the flag is cleared only together with the re-read of the
\* configuration, and that re-read follows unless the worker terminates first.
C14_ReloadBeforeBlocking ==
    /\ []((pc = "wait" /\ got_sighup) => latch)
    /\ [][(pc = "check_sighup" /\ got_sighup /\ pc' # pc)
             => (pc' = "process_config" /\ ~got_sighup')]_vars
    /\ [][(got_sighup /\ ~got_sighup') => pc' = "process_config"]_vars
    /\ (got_sighup ~> (pc = "process_config" \/ pc = "terminated"))

\* C14 witness: after a unit of work, the configuration is being re-read in a
\* cycle whose wait was ended at once by the latch alone
C14_Witness ==
    /\ pc = "process_config"
    /\ ticks >= 1
    /\ rc = {WL_LATCH_SET}
    /\ elapsed = 0

\* the connection to the database has been established
Connected == connTarget.by # "none"

\* the flag that records a signal
Flag(sig) == IF sig = "SIGHUP" THEN got_sighup ELSE got_sigterm

\* C15: the handlers are installed before signals are unblocked, signals are
\* unblocked before the connection is made, all three precede the first wait,
\* and no signal is lost: a signal sent and not yet served is pending or
\* recorded in its flag, and one delivered before the first wait has returned
\* leaves the latch set.
C15_StartupOrdering ==
    /\ ~sigBlocked => handlersInstalled
    /\ Connected => ~sigBlocked
    /\ (pc \in {"call_wait", "wait"}) => Connected
    /\ \A sig \in owed : sig \in pendingSig \/ Flag(sig)
    /\ (~sigBlocked /\ rc = {} /\ owed # {}) => latch

\* C15 witness: both signals arrived before the first wait returned and the
\* worker is in that wait with the latch set
C15_Witness ==
    /\ pc = "wait"
    /\ rc = {}
    /\ owed = {"SIGHUP", "SIGTERM"}
    /\ got_sighup
    /\ got_sigterm
    /\ latch

\* C16: whenever the worker is about to wait or is in the wait and one of the
\* flags is true, the latch is set, so the latch is among the wake events that
\* have occurred and the wait can return without sleeping.
C16_NoLostWakeup ==
    /\ (pc \in {"call_wait", "wait"} /\ (got_sigterm \/ got_sighup)) => latch
    /\ (pc = "wait" /\ (got_sigterm \/ got_sighup)) => WL_LATCH_SET \in Occurred

\* C16 witness: SIGTERM arrived between the loop test and the start of the
\* wait, after at least one completed cycle
C16_Witness ==
    /\ pc = "call_wait"
    /\ got_sigterm
    /\ ~got_sighup
    /\ latch
    /\ ticks >= 1

\* C17: while a transaction of the worker is open no configuration re-read
\* occurs (the worker is at the statement or the commit of its unit of work,
\* never at ProcessConfigFile) and the configuration values do not change,
\* also when a reload signal arrives during the unit of work.
C17_ReloadOnlyBetweenCycles ==
    /\ [](xact = "in_progress" => InTick)
    /\ [](pc = "process_config" => xact = "idle")
    /\ [][(xact = "in_progress")
             => UNCHANGED <<pglogical_ticker_naptime, pglogical_ticker_database,
                            pglogical_ticker_restart_time, reloaded>>]_vars

\* C17 witness: a reload signal was delivered during the unit of work, the
\* configuration file holds a new value, and the worker at the commit still
\* has the old one
C17_Witness ==
    /\ pc = "commit"
    /\ xact = "in_progress"
    /\ got_sighup
    /\ ~reloaded
    /\ confDatabase # pglogical_ticker_database
    /\ confRestartTime # pglogical_ticker_restart_time

\* C18: each flag is cleared by the main loop after it has acted on it:
\* got_sigterm is false again once the loop has exited for it.
C18_SigtermClearedAtExit ==
    (pc = "terminated" /\ exitReason = "shutdown") => ~got_sigterm

\* C18 as amended: a flag goes from false to true only in a step that delivers
\* its signal to the handler, and that step sets the latch and changes nothing
\* else of the worker (its position moves only when the delivery is the one
\* made by BackgroundWorkerUnblockSignals); got_sighup goes from true to false
\* only in the main loop, in the step that goes on to re-read the
\* configuration; got_sigterm never goes back to false.
C18_FlagDiscipline ==
    [][/\ ((~got_sigterm /\ got_sigterm') \/ (~got_sighup /\ got_sighup'))
            => /\ latch'
               /\ handlersInstalled
               /\ pc' = pc \/ pc = "unblock"
               /\ UNCHANGED <<rc, timeout, elapsed, pglogical_ticker_naptime,
                              pglogical_ticker_database, connTarget, xact, activity,
                              exitStatus, exitReason, ticks, reloaded>>
       /\ (~got_sigterm /\ got_sigterm')
            => (got_sighup' = got_sighup \/ "SIGHUP" \in pendingSig)
       /\ (~got_sighup /\ got_sighup')
            => (got_sigterm' = got_sigterm \/ "SIGTERM" \in pendingSig)
       /\ got_sigterm => got_sigterm'
       /\ (got_sighup /\ ~got_sighup')
            => (pc = "check_sighup" /\ pc' = "process_config")]_vars

\* C18 witness: the reload flag set by its handler has been cleared by the main
\* loop, which is re-reading the configuration, while the shutdown flag set by
\* its handler is still true
C18_Witness ==
    /\ pc = "process_config"
    /\ ~got_sighup
    /\ "SIGHUP" \notin owed
    /\ got_sigterm

\* C19: the connection made at startup is by name to pglogical_ticker.database
\* whenever that is set, whatever the launch argument, and is by the oid of
\* the launch argument if and only if pglogical_ticker.database is not set.
C19_ConnectionTarget ==
    [][(pc = "connect" /\ pc' = "loop_top")
          => /\ (pglogical_ticker_database # NoDatabase)
                   => /\ connTarget'.by = "name"
                      /\ connTarget'.db = pglogical_ticker_database
             /\ (connTarget'.by = "oid") <=> (pglogical_ticker_database = NoDatabase)
             /\ (connTarget'.by = "oid") => (connTarget'.oid = main_arg)]_vars

\* C19 witness: a worker launched with a database oid is connected by name,
\* because pglogical_ticker.database is set
C19_Witness ==
    /\ Connected
    /\ main_arg # 0
    /\ connTarget.by = "name"
    /\ connTarget.db = pglogical_ticker_database

\* C20: in the wait and after the loop exit the worker has no open transaction
\* and is not reported running; a transaction is begun only by the begin step
\* of a cycle and ended only by its commit step (or by the end of the
\* process), so begin and commit alternate; a SIGTERM delivered during the unit
\* of work changes neither the worker's position nor its transaction.
C20_TransactionDiscipline ==
    /\ []((pc \in {"call_wait", "wait"} \/ (pc = "terminated" /\ exitReason = "shutdown"))
             => (xact = "idle" /\ activity # "running"))
    /\ [](xact = "in_progress" <=> InTick)
    /\ [][/\ (xact = "idle" /\ xact' = "in_progress")
               => (pc = "start_xact" /\ pc' = "execute")
          /\ (xact = "in_progress" /\ xact' = "idle")
               => ((pc = "commit" /\ pc' = "loop_top") \/ pc' = "terminated")
          /\ (InTick /\ ~got_sigterm /\ got_sigterm')
               => UNCHANGED <<pc, xact, activity, exitStatus, exitReason>>]_vars

\* C20 witness: SIGTERM arrived after the wait of the last cycle had returned,
\* the unit of work was committed, and the worker left through the loop exit
C20_Witness ==
    /\ pc = "terminated"
    /\ exitReason = "shutdown"
    /\ ~termAtWake
    /\ ticks >= 1
    /\ xact = "idle"
    /\ activity = "idle"

====
